---- MODULE Spec2Model ----
(***************************************************************************)
(* Model of the riskboard (ZeroHour) pipeline: parseFindings (parser.ts)   *)
(* and prioritizeRisks / fallbackRanking (ai.ts).                          *)
(*                                                                         *)
(* JavaScript values are represented as follows.                           *)
(*  - An EnrichedFinding is a record [id, file, message, exposureScore];   *)
(*    id is the object's identity (its position in the caller's array);    *)
(*    file is a file number (0 stands for `undefined`).                    *)
(*  - A value that is not a finding but ends up in `originalFinding`       *)
(*    (batch.length, a Number) is NumberValue: reading .file on it gives   *)
(*    undefined.                                                           *)
(*  - A risk title is a record [prefix, text]; a title built by            *)
(*    fallbackRanking has prefix "Potential ".                             *)
(*  - isFallback is "true" or "undefined" (property absent).               *)
(***************************************************************************)
EXTENDS Integers, Sequences, FiniteSets, TLC

VARIABLES
  pc,          \* position of prioritizeRisks: "start", "awaiting", "done"; "idle" in ParserSpec
  apiKey,      \* process.env.GROQ_API_KEY
  input,       \* the caller's array as it was when prioritizeRisks was called
  findings,    \* the caller's array (Array.prototype.sort works in place)
  batches,     \* const batches (ai.ts:40)
  requests,    \* number of openai.chat.completions.create calls issued
  response,    \* per batch: what the remote call produced, or Pending
  results,     \* per batch: the settled batchPromise
  completed,   \* the batch indices in the order their requests completed
  allRisks,    \* const allRisks (ai.ts:108)
  uniqueRisks, \* const uniqueRisks (ai.ts:111)
  log,         \* console.warn / console.error output
  result,      \* how the call ended: [outcome, topRisks, isFallback]
  file,        \* parseFindings: the file at filePath
  parsed       \* parseFindings: how the call ended

vars == <<pc, apiKey, input, findings, batches, requests, response, results,
          completed, allRisks, uniqueRisks, log, result, file, parsed>>

-----------------------------------------------------------------------------
(* Program constants *)

BATCH_SIZE == 20
MAX_BATCHES == 3
FALLBACK_TOP == 5
TOP_RISKS == 10

(* Bounds of the model *)

\* inputs of every length 0..MaxSmall are enumerated
MaxSmall == 6
\* findings beyond BATCH_SIZE * MAX_BATCHES in the longest input
Extra == 2
\* total weight of the remote responses of one call: one per risk entry of an
\* enumerated list, one per failed request, see Weight
MaxWeight == 2
\* longest results array of an enumerated findings file
MaxEntries == 2

Min(a, b) == IF a <= b THEN a ELSE b

\* a function on 1..n as a sequence value (evaluated once)
Array(f) == f \o <<>>

-----------------------------------------------------------------------------
(* Inputs of prioritizeRisks *)

ApiKeys == {"undefined", "", "gsk_key"}

ScoreOf(i, sk) ==
  CASE sk = "flat" -> 5
    [] sk = "asc" -> i
    [] OTHER -> i % 3

FileOf(i, fk) ==
  CASE fk = "one" -> 1
    [] fk = "two" -> 1 + (i % 2)
    [] OTHER -> i

MessageOf(i) == IF i % 2 = 0 THEN "xss" ELSE "sqli"

MakeFindings(n, sk, fk) ==
  Array([i \in 1..n |-> [id |-> i, file |-> FileOf(i, fk), message |-> MessageOf(i),
                         exposureScore |-> ScoreOf(i, sk)]])

\* score and file patterns of the enumerated inputs
Patterns == {<<"flat", "one">>, <<"asc", "distinct">>, <<"mod3", "one">>}

Inputs ==
  {MakeFindings(n, p[1], p[2]) : n \in 0..MaxSmall, p \in Patterns}
  \cup {MakeFindings(BATCH_SIZE + 1, "mod3", "two"),
        MakeFindings(BATCH_SIZE + 1, "asc", "distinct")}
  \cup {MakeFindings(BATCH_SIZE * MAX_BATCHES + Extra, "mod3", "distinct"),
        MakeFindings(BATCH_SIZE * MAX_BATCHES + Extra, "flat", "one")}

NumberValue == [id |-> 0, file |-> 0, message |-> "undefined", exposureScore |-> 0]

-----------------------------------------------------------------------------
(* Array helpers *)

\* Array.prototype.slice(0, n)
Slice(s, n) == SubSeq(s, 1, Min(n, Len(s)))

\* the comparator with its operands swapped
CompareAscending(a, b) == a.exposureScore - b.exposureScore

\* the comparator (a, b) => b.exposureScore - a.exposureScore
Compare(a, b) == b.exposureScore - a.exposureScore

\* Array.prototype.sort with Compare (stable since ES2019): element i lands
\* behind the elements that compare before it and the equal ones left of it
SortPosition(s, i) ==
  1 + Cardinality({j \in 1..Len(s) :
                     \/ Compare(s[j], s[i]) < 0
                     \/ Compare(s[j], s[i]) = 0 /\ j < i})

Sort(s) ==
  LET pos == Array([i \in 1..Len(s) |-> SortPosition(s, i)])
  IN Array([k \in 1..Len(s) |-> s[CHOOSE i \in 1..Len(s) : pos[i] = k]])

RECURSIVE Flat(_)
\* Array.prototype.flat on an array of arrays
Flat(ss) == IF ss = <<>> THEN <<>> ELSE Head(ss) \o Flat(Tail(ss))

\* the elements of s at the indices in kept, in order
Pick(s, kept) ==
  LET rank(i) == Cardinality({j \in kept : j <= i})
  IN Array([k \in 1..Cardinality(kept) |-> s[CHOOSE i \in kept : rank(i) = k]])

-----------------------------------------------------------------------------
(* fallbackRanking *)

FallbackTitle(f) == [prefix |-> "Potential ", text |-> f.message]

FallbackRisk(f) ==
  [title |-> FallbackTitle(f), confidence |-> "Medium", originalFinding |-> f]

\* the array after findings.sort(...) of fallbackRanking
FallbackSorted(fs) == Sort(fs)

\* topRisks of fallbackRanking(fs)
FallbackRanking(fs) ==
  LET top5 == Slice(FallbackSorted(fs), FALLBACK_TOP)
  IN Array([i \in 1..Len(top5) |-> FallbackRisk(top5[i])])

-----------------------------------------------------------------------------
(* Remote responses *)

NoItems == <<>>
RVAbsent == [kind |-> "absent", items |-> NoItems]   \* missing, null, 0, ""
RVScalar == [kind |-> "scalar", items |-> NoItems]   \* a truthy value that is no array
RVList(items) == [kind |-> "list", items |-> items]

Idx(n) == [kind |-> "index", val |-> n]
MissingId == [kind |-> "missing", val |-> 0]
FractionId == [kind |-> "fraction", val |-> 0]     \* e.g. 0.5
PropertyId == [kind |-> "property", val |-> 0]     \* the key "length"

RemoteTitle(t) == [prefix |-> "", text |-> t]

Entry(t, c, o) ==
  [kind |-> "object", title |-> RemoteTitle(t), confidence |-> c, originalId |-> o]
\* a null element of the risks array
NullEntry ==
  [kind |-> "null", title |-> RemoteTitle("undefined"), confidence |-> "undefined",
   originalId |-> MissingId]

Entries ==
  { Entry("A", "High", Idx(0)),
    Entry("B", "Medium", Idx(0)),
    Entry("A", "Low", Idx(1)),
    Entry("B", "High", Idx(-1)),
    Entry("A", "Critical", Idx(BATCH_SIZE)),
    Entry("undefined", "undefined", MissingId),
    Entry("B", "High", FractionId),
    Entry("A", "High", PropertyId),
    NullEntry }

\* the entries enumerated when several batches are in flight
CoreEntries ==
  { Entry("A", "High", Idx(0)),
    Entry("B", "Medium", Idx(0)),
    Entry("A", "Low", Idx(1)),
    Entry("B", "High", Idx(-1)),
    NullEntry }

EntriesFor(nBatches) == IF nBatches <= 1 THEN Entries ELSE CoreEntries

Pending == [kind |-> "pending", status |-> 0, risks |-> RVAbsent, topRisks |-> RVAbsent]
\* openai.chat.completions.create rejected; status 0 is a network error (no status)
ErrorResponse(st) == [kind |-> "error", status |-> st, risks |-> RVAbsent, topRisks |-> RVAbsent]
NoContent == [kind |-> "nocontent", status |-> 200, risks |-> RVAbsent, topRisks |-> RVAbsent]
BadJson == [kind |-> "badjson", status |-> 200, risks |-> RVAbsent, topRisks |-> RVAbsent]
NullJson == [kind |-> "null", status |-> 200, risks |-> RVAbsent, topRisks |-> RVAbsent]
ObjectResponse(r, t) == [kind |-> "object", status |-> 200, risks |-> r, topRisks |-> t]

Statuses == {401, 429, 404, 0}

SeqsUpTo(S, n) == UNION {[1..k -> S] : k \in 0..n}

\* a risk for every finding of the batch
Bulk(batch) ==
  ObjectResponse(RVList(Array([i \in 1..Len(batch) |-> Entry("A", "High", Idx(i - 1))])),
                 RVAbsent)

\* the weight of a response, see MaxWeight: one per risk entry, one for a
\* failure, one for the use of the legacy key topRisks
Weight(resp, batch) ==
  IF Len(resp.risks.items) = Len(batch) /\ resp = Bulk(batch) THEN 0
  ELSE Len(resp.risks.items) + Len(resp.topRisks.items)
       + (IF \/ resp.kind \in {"error", "badjson", "null"}
             \/ resp.risks.kind = "scalar"
             \/ resp.topRisks.kind # "absent"
          THEN 1 ELSE 0)

\* the responses of weight at most w with risk entries from E
Responses(batch, w, E) ==
  {Bulk(batch), NoContent}
  \cup {ObjectResponse(RVList(l), RVAbsent) : l \in SeqsUpTo(E, w)}
  \cup (IF w >= 1
        THEN {ErrorResponse(st) : st \in Statuses} \cup {BadJson, NullJson}
             \cup {ObjectResponse(RVScalar, RVAbsent), ObjectResponse(RVAbsent, RVScalar)}
             \cup {ObjectResponse(RVAbsent, RVList(l)) : l \in SeqsUpTo(E, w - 1)}
             \cup {ObjectResponse(RVList(NoItems), RVList(l)) : l \in SeqsUpTo(E, w - 1)}
        ELSE {})

-----------------------------------------------------------------------------
(* prioritizeRisks: one batch *)

UndefinedValue == [id |-> -1, file |-> 0, message |-> "undefined", exposureScore |-> 0]

\* batch[key] for a key taken from the response
ArrayGet(batch, key) ==
  CASE key.kind = "index" /\ key.val >= 0 /\ key.val < Len(batch) -> batch[key.val + 1]
    [] key.kind = "property" -> NumberValue      \* batch["length"]
    [] OTHER -> UndefinedValue

\* findings are objects and batch.length of a non-empty batch is not 0
TruthyValue(v) == v # UndefinedValue

\* batch[risk.originalId] || batch[0]
OriginalFinding(batch, key) ==
  IF TruthyValue(ArrayGet(batch, key)) THEN ArrayGet(batch, key) ELSE batch[1]

\* { ...risk, originalFinding: ... }
MapRisk(batch, e) ==
  [title |-> e.title, confidence |-> e.confidence,
   originalFinding |-> OriginalFinding(batch, e.originalId)]

Truthy(rv) == rv.kind # "absent"

\* if (result.isFallback) of displayResults
FlagSet(r) == r.isFallback = "true"

\* parsed.risks || parsed.topRisks || []
RisksOf(resp) ==
  IF Truthy(resp.risks) THEN resp.risks
  ELSE IF Truthy(resp.topRisks) THEN resp.topRisks
  ELSE RVList(NoItems)

Returned(v) == [thrown |-> FALSE, status |-> 0, message |-> "", value |-> v]
Thrown(st, m) == [thrown |-> TRUE, status |-> st, message |-> m, value |-> NoItems]

ErrorMessage(st) ==
  CASE st = 401 -> "401 Invalid API Key"
    [] st = 429 -> "429 Rate limit reached"
    [] st = 404 -> "404 The model does not exist"
    [] OTHER -> "Connection error."

\* the body of the try block of one batch (ai.ts:85-99)
BatchBody(batch, resp) ==
  CASE resp.kind = "error" -> Thrown(resp.status, ErrorMessage(resp.status))
    [] resp.kind = "nocontent" -> Returned(NoItems)
    [] resp.kind = "badjson" -> Thrown(0, "Unexpected token in JSON")
    [] resp.kind = "null" -> Thrown(0, "Cannot read properties of null (reading 'risks')")
    [] OTHER ->
         LET rv == RisksOf(resp) IN
         IF rv.kind = "scalar" THEN Thrown(0, "(intermediate value).map is not a function")
         ELSE IF \E i \in 1..Len(rv.items) : rv.items[i].kind = "null"
         THEN Thrown(0, "Cannot read properties of null (reading 'originalId')")
         ELSE Returned(Array([i \in 1..Len(rv.items) |-> MapRisk(batch, rv.items[i])]))

Fulfilled(v, w) == [status |-> "fulfilled", value |-> v, warn |-> w, error |-> Returned(NoItems)]
Rejected(e) == [status |-> "rejected", value |-> NoItems, warn |-> {}, error |-> e]

BatchWarning(batchIndex, e) ==
  [level |-> "warn", batch |-> batchIndex, text |-> "Batch failed: ", detail |-> e.message]

\* a batch whose error escapes its callback
BatchCatchReject(batchIndex, e) == Rejected(e)

\* the catch block of one batch (ai.ts:100-103): log and return []
BatchCatch(batchIndex, e) == Fulfilled(NoItems, {BatchWarning(batchIndex, e)})

\* the async callback of batches.map from the await on (ai.ts:84-103)
BatchPromise(batchIndex, batch, resp) ==
  LET b == BatchBody(batch, resp)
  IN IF b.thrown THEN BatchCatch(batchIndex, b) ELSE Fulfilled(b.value, {})

-----------------------------------------------------------------------------
(* prioritizeRisks: batching and merge *)

\* findingsToAnalyze cut into batches (ai.ts:38-43)
MakeBatches(sorted) ==
  LET toAnalyze == Slice(sorted, BATCH_SIZE * MAX_BATCHES)
      n == (Len(toAnalyze) + BATCH_SIZE - 1) \div BATCH_SIZE
  IN Array([k \in 1..n |->
        SubSeq(toAnalyze, (k - 1) * BATCH_SIZE + 1, Min(k * BATCH_SIZE, Len(toAnalyze)))])

\* a key that ignores the file
SameKeyTitleOnly(t, risk) == t.title = risk.title

SameKey(t, risk) ==
  t.title = risk.title /\ t.originalFinding.file = risk.originalFinding.file

\* self.findIndex(...)
FindIndex(self, risk) ==
  LET hits == {j \in 1..Len(self) : SameKey(self[j], risk)}
  IN IF hits = {} THEN 0 ELSE CHOOSE j \in hits : \A k \in hits : j <= k

IsFirst(self, i) == i = FindIndex(self, self[i])

\* allRisks.filter(...) (ai.ts:111-113)
Dedupe(all) == Pick(all, {i \in 1..Len(all) : IsFirst(all, i)})

\* the remote return without the slice
RemoteResultNoSlice(unique) ==
  [outcome |-> "returned", topRisks |-> unique, isFallback |-> "undefined"]

\* the remote return marked as a fallback
RemoteResultFlagged(unique) ==
  [outcome |-> "returned", topRisks |-> Slice(unique, TOP_RISKS), isFallback |-> "true"]

RemoteResult(unique) ==
  [outcome |-> "returned", topRisks |-> Slice(unique, TOP_RISKS), isFallback |-> "undefined"]

FallbackResult(fs) ==
  [outcome |-> "returned", topRisks |-> FallbackRanking(fs), isFallback |-> "true"]

Raised == [outcome |-> "raised", topRisks |-> NoItems, isFallback |-> "undefined"]
NoResult == [outcome |-> "none", topRisks |-> NoItems, isFallback |-> "undefined"]

OuterWarning(e) ==
  [level |-> "warn", batch |-> 0,
   text |-> CASE e.status = 401 -> "Groq API Key Invalid. Check GROQ_API_KEY in .env."
              [] e.status = 429 -> "Groq API Quota Exceeded (429). Falling back to local analysis."
              [] e.status = 404 -> "Groq Model not found."
              [] OTHER -> "AI Analysis Failed: ",
   detail |-> IF e.status \in {401, 429, 404} THEN "" ELSE e.message]

\* an outer catch that throws the error on
OuterCatchRethrow(e, fs) == Raised

\* an outer catch that returns no risks
OuterCatchEmpty(e, fs) ==
  [outcome |-> "returned", topRisks |-> NoItems, isFallback |-> "true"]

\* the outer catch (ai.ts:122-137): what the call returns
OuterCatch(e, fs) == FallbackResult(fs)

\* await Promise.all(batchPromises): the first rejection, if any
PromiseAll(settled) ==
  LET bad == {i \in 1..Len(settled) : settled[i].status = "rejected"}
  IN IF bad = {} THEN Returned(NoItems)
     ELSE settled[CHOOSE i \in bad : \A j \in bad : i <= j].error

Values(settled) == Array([i \in 1..Len(settled) |-> settled[i].value])

\* a join that resolves as soon as one promise has settled
AnySettled(resps) == resps = <<>> \/ \E i \in 1..Len(resps) : resps[i] # Pending

\* await Promise.all(batchPromises) resolves when every promise has settled
AllSettled(resps) == \A i \in 1..Len(resps) : resps[i] # Pending

\* the values listed in the order the promises settled
JoinedByCompletion(rs, order) == Array([k \in 1..Len(order) |-> rs[order[k]].value])

\* the array Promise.all resolves to: the values in the order of the promises
\* passed to it, whatever the order they settled in
Joined(rs, order) == Values(rs)

\* the error the try block ends with, if any (ai.ts:107-118)
TryError(settled) ==
  IF PromiseAll(settled).thrown THEN PromiseAll(settled)
  ELSE IF Dedupe(Flat(Values(settled))) = <<>> THEN Thrown(0, "No risks identified by AI")
  ELSE Returned(NoItems)

-----------------------------------------------------------------------------
(* parseFindings *)

\* a JSON value read from a field: its type and its text
Str(v) == [type |-> "string", val |-> v]
Num(v) == [type |-> "number", val |-> v]
Undefined == [type |-> "undefined", val |-> ""]

NoStart == [present |-> FALSE, line |-> Undefined]
Start(l) == [present |-> TRUE, line |-> l]
NoExtra == [present |-> FALSE, message |-> Undefined, severity |-> Undefined, lines |-> Undefined]
ExtraOf(m, sv, ls) == [present |-> TRUE, message |-> m, severity |-> sv, lines |-> ls]

ResultEntry(c, p, st, ex) ==
  [kind |-> "object", check_id |-> c, path |-> p, start |-> st, extra |-> ex]
NullResult ==
  [kind |-> "null", check_id |-> Undefined, path |-> Undefined, start |-> NoStart,
   extra |-> NoExtra]

GoodExtra == ExtraOf(Str("msg"), Str("ERROR"), Str("code"))

\* entries that follow the scanner's schema
SchemaEntries ==
  {ResultEntry(Str(c), Str(p), Start(Num("1")), GoodExtra) :
     c \in {"rule1", "rule2"}, p \in {"a.js", "b.js"}}

\* entries that deviate from it in one place
DeviantEntries ==
  { ResultEntry(Undefined, Str("a.js"), Start(Num("1")), GoodExtra),
    ResultEntry(Num("3"), Str("a.js"), Start(Num("1")), GoodExtra),
    ResultEntry(Str("rule1"), Undefined, Start(Num("1")), GoodExtra),
    ResultEntry(Str("rule1"), Str("a.js"), NoStart, GoodExtra),
    ResultEntry(Str("rule1"), Str("a.js"), Start(Undefined), GoodExtra),
    ResultEntry(Str("rule1"), Str("a.js"), Start(Str("one")), GoodExtra),
    ResultEntry(Str("rule1"), Str("a.js"), Start(Num("1")), NoExtra),
    ResultEntry(Str("rule1"), Str("a.js"), Start(Num("1")),
                ExtraOf(Undefined, Str("ERROR"), Str("code"))),
    ResultEntry(Str("rule1"), Str("a.js"), Start(Num("1")),
                ExtraOf(Str("msg"), Num("2"), Str("code"))),
    ResultEntry(Str("rule1"), Str("a.js"), Start(Num("1")),
                ExtraOf(Str("msg"), Str("ERROR"), Undefined)),
    NullResult }

\* the file at filePath: unreadable, no JSON, the JSON null, or a JSON object
\* whose results field is absent, a value that is no array, or an array
FileOfKind(k) == [kind |-> k, results |-> [kind |-> "absent", items |-> <<>>]]
NoFile == FileOfKind("none")
JsonFile(rk, items) == [kind |-> "object", results |-> [kind |-> rk, items |-> items]]

Files ==
  {FileOfKind("unreadable"), FileOfKind("invalid"), FileOfKind("null")}
  \cup {JsonFile("absent", <<>>), JsonFile("scalar", <<>>), JsonFile("object", <<>>)}
  \cup {JsonFile("list", l) : l \in SeqsUpTo(SchemaEntries \cup DeviantEntries, MaxEntries)}

\* an Error: its message and the quoted names the message holds
Err(m, names) == [text |-> m, mentions |-> names]
NoError == Err("", {})

\* the property read that throws on r, if any (the map callback)
EntryError(r) ==
  CASE r.kind = "null" ->
         Err("Cannot read properties of null (reading 'check_id')", {"check_id"})
    [] ~r.start.present ->
         Err("Cannot read properties of undefined (reading 'line')", {"line"})
    [] ~r.extra.present ->
         Err("Cannot read properties of undefined (reading 'message')", {"message"})
    [] OTHER -> NoError

\* a mapping that mixes up two fields
ToFindingSwapped(r) ==
  [ruleId |-> r.path, file |-> r.check_id, line |-> r.start.line,
   message |-> r.extra.message, severity |-> r.extra.severity,
   codeSnippet |-> r.extra.lines]

\* the Finding built from one entry
ToFinding(r) ==
  [ruleId |-> r.check_id, file |-> r.path, line |-> r.start.line,
   message |-> r.extra.message, severity |-> r.extra.severity,
   codeSnippet |-> r.extra.lines]

ParseReturned(fs) == [outcome |-> "returned", findings |-> fs, error |-> NoError]
ParseRaised(e) == [outcome |-> "raised", findings |-> <<>>, error |-> e]
NotParsed == [outcome |-> "none", findings |-> <<>>, error |-> NoError]

\* the try block: what it returns, or the error thrown inside it
TryParse(f) ==
  CASE f.kind = "unreadable" ->
         ParseRaised(Err("ENOENT: no such file or directory, open", {}))
    [] f.kind = "invalid" ->
         ParseRaised(Err("Unexpected token in JSON at position 0", {}))
    [] f.kind = "null" ->
         ParseRaised(Err("Cannot read properties of null (reading 'results')", {"results"}))
    [] f.results.kind # "list" ->
         ParseRaised(Err("Invalid Semgrep JSON format: \"results\" array missing.", {"results"}))
    [] \E i \in 1..Len(f.results.items) : EntryError(f.results.items[i]) # NoError ->
         LET i == CHOOSE i \in 1..Len(f.results.items) :
                    /\ EntryError(f.results.items[i]) # NoError
                    /\ \A j \in 1..(i - 1) : EntryError(f.results.items[j]) = NoError
         IN ParseRaised(EntryError(f.results.items[i]))
    [] OTHER ->
         ParseReturned(Array([i \in 1..Len(f.results.items) |-> ToFinding(f.results.items[i])]))

\* a catch block that drops the cause
WrapErrorGeneric(e) == Err("Failed to parse findings file", {})

\* throw new Error(`Failed to parse findings file: ${error.message}`)
WrapError(e) == Err("Failed to parse findings file: " \o e.text, e.mentions)

-----------------------------------------------------------------------------
(* Actions of prioritizeRisks *)

FalsyKey(k) == k \in {"undefined", ""}

RECURSIVE SumWeights(_, _, _)
SumWeights(resps, bs, i) ==
  IF i = 0 THEN 0 ELSE Weight(resps[i], bs[i]) + SumWeights(resps, bs, i - 1)

UsedWeight == SumWeights(response, batches, Len(response))

\* the weight the responses of one call may add up to: one less when
\* MAX_BATCHES requests are in flight
Budget(nBatches) == IF nBatches < MAX_BATCHES THEN MaxWeight ELSE MaxWeight - 1

parserIdle == file = NoFile /\ parsed = NotParsed

Init ==
  /\ pc = "start"
  /\ apiKey \in ApiKeys
  /\ input \in Inputs
  /\ findings = input
  /\ batches = <<>>
  /\ requests = 0
  /\ response = <<>>
  /\ results = <<>>
  /\ completed = <<>>
  /\ allRisks = <<>>
  /\ uniqueRisks = <<>>
  /\ log = {}
  /\ result = NoResult
  /\ parserIdle

\* no credential (ai.ts:20-24)
PrioritizeNoKey ==
  /\ pc = "start"
  /\ FalsyKey(apiKey)
  /\ findings' = FallbackSorted(findings)
  /\ result' = FallbackResult(findings)
  /\ pc' = "done"
  /\ UNCHANGED <<apiKey, input, batches, requests, response, results, completed,
                 allRisks, uniqueRisks, log, file, parsed>>

\* with a credential: sort, batch, issue one request per batch (ai.ts:26-90)
PrioritizeRemote ==
  /\ pc = "start"
  /\ ~FalsyKey(apiKey)
  /\ findings' = Sort(findings)
  /\ batches' = MakeBatches(findings')
  /\ requests' = Len(batches')
  /\ response' = [i \in 1..Len(batches') |-> Pending]
  /\ results' = [i \in 1..Len(batches') |-> Fulfilled(NoItems, {})]
  /\ pc' = "awaiting"
  /\ UNCHANGED <<apiKey, input, completed, allRisks, uniqueRisks, log, result,
                 file, parsed>>

\* the remote call of batch i completes and its callback runs to the end
BatchSettle(i, resp) ==
  /\ pc = "awaiting"
  /\ i \in 1..Len(batches)
  /\ response[i] = Pending
  /\ UsedWeight + Weight(resp, batches[i]) <= Budget(Len(batches))
  /\ response' = [response EXCEPT ![i] = resp]
  /\ results' = [results EXCEPT ![i] = BatchPromise(i, batches[i], resp)]
  /\ completed' = Append(completed, i)
  /\ log' = log \cup results'[i].warn
  /\ UNCHANGED <<pc, apiKey, input, findings, batches, requests, allRisks,
                 uniqueRisks, result, file, parsed>>

\* Promise.all resolves; merge, or fall back (ai.ts:107-137)
Merge ==
  /\ pc = "awaiting"
  /\ AllSettled(response)
  /\ LET e == TryError(results) IN
       /\ allRisks' = IF PromiseAll(results).thrown THEN <<>> ELSE Flat(Joined(results, completed))
       /\ uniqueRisks' = Dedupe(allRisks')
       /\ IF e.thrown
          THEN /\ log' = log \cup {OuterWarning(e)}
               /\ findings' = FallbackSorted(findings)
               /\ result' = OuterCatch(e, findings)
          ELSE /\ result' = RemoteResult(uniqueRisks')
               /\ UNCHANGED <<log, findings>>
  /\ pc' = "done"
  /\ UNCHANGED <<apiKey, input, batches, requests, response, results, completed,
                 file, parsed>>

Next ==
  \/ PrioritizeNoKey
  \/ PrioritizeRemote
  \/ /\ pc = "awaiting"
     /\ \E i \in {j \in 1..Len(batches) : response[j] = Pending} :
          \E resp \in Responses(batches[i], Budget(Len(batches)) - UsedWeight,
                                  EntriesFor(Len(batches))) :
             BatchSettle(i, resp)
  \/ Merge

Spec == Init /\ [][Next]_vars

-----------------------------------------------------------------------------
(* Actions of parseFindings *)

ParserInit ==
  /\ pc = "idle"
  /\ apiKey = "undefined"
  /\ input = <<>>
  /\ findings = <<>>
  /\ batches = <<>>
  /\ requests = 0
  /\ response = <<>>
  /\ results = <<>>
  /\ completed = <<>>
  /\ allRisks = <<>>
  /\ uniqueRisks = <<>>
  /\ log = {}
  /\ result = NoResult
  /\ file \in Files
  /\ parsed = NotParsed

\* parseFindings(filePath)
ParseFindings ==
  /\ pc = "idle"
  /\ parsed = NotParsed
  /\ LET t == TryParse(file)
     IN parsed' = IF t.outcome = "raised" THEN ParseRaised(WrapError(t.error)) ELSE t
  /\ UNCHANGED <<pc, apiKey, input, findings, batches, requests, response, results,
                 completed, allRisks, uniqueRisks, log, result, file>>

ParserNext == ParseFindings

ParserSpec == ParserInit /\ [][ParserNext]_vars

-----------------------------------------------------------------------------
(* Properties of prioritizeRisks *)

Done == pc = "done"
KeyConfigured == apiKey \notin {"undefined", ""}
Elements(s) == {s[i] : i \in 1..Len(s)}

\* a precedes b in the ranking: higher score, or equal score and earlier in
\* the caller's array
Precedes(a, b) ==
  \/ a.exposureScore > b.exposureScore
  \/ a.exposureScore = b.exposureScore /\ a.id < b.id

\* risks are the fallback's risks for the first min(5, N) findings of fs in
\* ranking order
IsFallbackOf(risks, fs) ==
  /\ Len(risks) = (IF Len(fs) < 5 THEN Len(fs) ELSE 5)
  /\ \A i \in 1..Len(risks) :
       /\ risks[i].originalFinding \in Elements(fs)
       /\ risks[i].confidence = "Medium"
       /\ risks[i].title = [prefix |-> "Potential ", text |-> risks[i].originalFinding.message]
  /\ \A i, j \in 1..Len(risks) :
       i < j => Precedes(risks[i].originalFinding, risks[j].originalFinding)
  /\ \A f \in Elements(fs) :
       (\A i \in 1..Len(risks) : risks[i].originalFinding # f)
         => \A i \in 1..Len(risks) : Precedes(risks[i].originalFinding, f)

\* the request of a settled batch failed: the call was rejected, the content
\* is no JSON, or the JSON has not the shape the callback reads
RequestFailed(resp) ==
  \/ resp.kind \in {"error", "badjson", "null"}
  \/ /\ resp.kind = "object"
     /\ LET rv == IF resp.risks.kind # "absent" THEN resp.risks ELSE resp.topRisks
        IN \/ rv.kind = "scalar"
           \/ \E k \in 1..Len(rv.items) : rv.items[k].kind = "null"

KeyOf(r) == <<r.title, r.originalFinding.file>>

\* C1: topRisks never holds more than 10 risks
C1_ResultBound == Len(result.topRisks) <= 10

\* C1 witness: a remote result cut from more than 10 distinct risks
C1_Witness ==
  /\ Done /\ KeyConfigured /\ ~FlagSet(result)
  /\ Len(uniqueRisks) > 10
  /\ Len(result.topRisks) = 10

\* C2: without a credential no request is issued and the result is the
\* fallback: min(5, N) risks, one per finding, by descending exposureScore,
\* ties in input order, confidence Medium, flag true
C2_NoCredentialFallback ==
  (Done /\ ~KeyConfigured /\ Len(input) >= 1) =>
     /\ requests = 0
     /\ result.outcome = "returned"
     /\ result.isFallback = "true"
     /\ IsFallbackOf(result.topRisks, input)

\* C2 witness: no credential, more than 5 findings with tied scores out of order
C2_Witness ==
  /\ Done /\ ~KeyConfigured
  /\ Len(input) > 5
  /\ \E i, j \in 1..Len(input) :
       i < j /\ input[i].exposureScore < input[j].exposureScore
  /\ \E i, j \in 1..Len(input) :
       i < j /\ input[i].exposureScore = input[j].exposureScore
  /\ Len(result.topRisks) = 5

\* C3: the call never ends with a raised error, whatever the batches produced
C3_NeverRaises ==
  /\ result.outcome # "raised"
  /\ Done => result.outcome = "returned"

\* C3 witness: the call returned although every batch failed, one of them
\* rejected by the remote service
C3_Witness ==
  /\ Done /\ KeyConfigured
  /\ Len(response) >= 2
  /\ \A i \in 1..Len(response) : RequestFailed(response[i])
  /\ \E i \in 1..Len(response) : response[i].kind = "error"
  /\ \E i \in 1..Len(response) : response[i].kind = "object"
  /\ result.outcome = "returned"

\* C4: the deduplicated merge keeps exactly the first occurrence of every
\* pair (title, file), in concatenation order, and the result has no two
\* entries with the same pair
C4_Dedup ==
  (Done /\ KeyConfigured) =>
     LET firsts == {i \in 1..Len(allRisks) :
                      \A j \in 1..(i - 1) : KeyOf(allRisks[j]) # KeyOf(allRisks[i])}
     IN /\ Len(uniqueRisks) = Cardinality(firsts)
        /\ \A i \in firsts :
             uniqueRisks[Cardinality({j \in firsts : j <= i})] = allRisks[i]
        /\ \A i, j \in 1..Len(uniqueRisks) :
             i # j => KeyOf(uniqueRisks[i]) # KeyOf(uniqueRisks[j])
        /\ ~FlagSet(result) =>
             \A i, j \in 1..Len(result.topRisks) :
               i # j => KeyOf(result.topRisks[i]) # KeyOf(result.topRisks[j])

\* C4 witness: two batches reported the same pair, another risk with the same
\* title and another file survived
C4_Witness ==
  /\ Done /\ KeyConfigured /\ ~FlagSet(result)
  /\ \E a, b \in 1..Len(results) :
       /\ a < b
       /\ \E x \in Elements(results[a].value), y \in Elements(results[b].value) :
            KeyOf(x) = KeyOf(y)
  /\ \E i, j \in 1..Len(uniqueRisks) :
       /\ i # j
       /\ uniqueRisks[i].title = uniqueRisks[j].title
  /\ Len(uniqueRisks) < Len(allRisks)

\* C5: with a credential and an empty merge the call returns what the
\* fallback returns for the same input without a credential
C5_EmptyMergeFallsBack ==
  (Done /\ KeyConfigured /\ uniqueRisks = <<>>) =>
     /\ result = FallbackResult(input)
     /\ result.isFallback = "true"
     /\ IsFallbackOf(result.topRisks, input)

\* C5 witness: several batches, none contributed a risk, more than 5 findings
C5_Witness ==
  /\ Done /\ KeyConfigured
  /\ Len(batches) >= 2
  /\ uniqueRisks = <<>>
  /\ \E i \in 1..Len(response) : RequestFailed(response[i])
  /\ Len(result.topRisks) = 5

\* what a settled batch contributes to the merge
Contribution(i) ==
  IF RequestFailed(response[i]) THEN <<>> ELSE BatchBody(batches[i], response[i]).value

\* C6: a failed batch contributes an empty list and nothing else changes:
\* the merged list is the concatenation of the contributions, and the call
\* does not fall back while some batch contributed a risk
C6_FailureIsolated ==
  /\ \A i \in 1..Len(response) :
       (response[i] # Pending /\ RequestFailed(response[i])) =>
          /\ results[i].status = "fulfilled"
          /\ results[i].value = <<>>
  /\ (Done /\ KeyConfigured) =>
       /\ allRisks = Flat([i \in 1..Len(response) |-> Contribution(i)])
       /\ (\E i \in 1..Len(response) : Contribution(i) # <<>>) =>
             /\ result.outcome = "returned"
             /\ ~FlagSet(result)
             /\ result.topRisks # <<>>

\* C6 witness: the first of three batches failed, the other two returned
\* risks, and these are the result
C6_Witness ==
  /\ Done /\ KeyConfigured
  /\ Len(response) = 3
  /\ RequestFailed(response[1])
  /\ \A i \in 2..3 : ~RequestFailed(response[i]) /\ results[i].value # <<>>
  /\ allRisks = results[2].value \o results[3].value
  /\ ~FlagSet(result)
  /\ result.topRisks # <<>>

ClaimedFinding(batch, key) ==
  IF key.kind = "index" /\ key.val >= 0 /\ key.val < Len(batch)
  THEN batch[key.val + 1]
  ELSE batch[1]

\* C9: every risk of a batch references the finding at its originalId when
\* that is an index of the batch, and the batch's first finding otherwise
C9_ReferenceInBatch ==
  \A i \in 1..Len(response) :
    (response[i].kind = "object" /\ ~RequestFailed(response[i])) =>
       LET items == (IF response[i].risks.kind # "absent"
                     THEN response[i].risks ELSE response[i].topRisks).items
       IN /\ Len(results[i].value) = Len(items)
          /\ \A k \in 1..Len(items) :
               /\ results[i].value[k].originalFinding \in Elements(batches[i])
               /\ results[i].value[k].originalFinding
                    = ClaimedFinding(batches[i], items[k].originalId)

\* C11: with a credential, nothing of the merge exists and no result is
\* returned while a batch request is outstanding; once the call has returned
\* every issued request has completed
C11_JoinAll ==
  (KeyConfigured /\ \E i \in 1..Len(response) : response[i] = Pending) =>
     /\ pc = "awaiting"
     /\ result = NoResult
     /\ allRisks = <<>>
     /\ uniqueRisks = <<>>

\* C11 witness: of three batches one failed first and one reported nothing;
\* the call returned with the risks of the batch that completed last
C11_Witness ==
  /\ Done /\ KeyConfigured /\ ~FlagSet(result)
  /\ Len(response) = MAX_BATCHES
  /\ Len(completed) = MAX_BATCHES
  /\ response[completed[1]].kind = "error"
  /\ results[completed[MAX_BATCHES]].value # <<>>
  /\ result.topRisks # <<>>

\* the risks of batch i as its promise delivered them
RisksOfBatch(i) == IF i <= Len(results) THEN results[i].value ELSE <<>>

\* the position in the concatenation of the first risk of batch i
Offset(i) ==
  CASE i = 1 -> 0
    [] i = 2 -> Len(RisksOfBatch(1))
    [] OTHER -> Len(RisksOfBatch(1)) + Len(RisksOfBatch(2))

\* risk k of batch i is the first with its pair in batch index order
FirstOfKey(i, k) ==
  \A j \in 1..i : \A m \in 1..Len(RisksOfBatch(j)) :
     (j < i \/ m < k) => KeyOf(RisksOfBatch(j)[m]) # KeyOf(RisksOfBatch(i)[k])

C13_ConfidenceInRange ==
  (Done /\ result.outcome = "returned") =>
     \A i \in 1..Len(result.topRisks) :
        result.topRisks[i].confidence \in {"High", "Medium", "Low"}

\* a log entry that tells the kind of failure with status st
TellsKind(w, st) ==
  \/ w.detail = ErrorMessage(st)
  \/ w.text = OuterWarning(Thrown(st, ErrorMessage(st))).text /\ st \in {401, 429, 404}

\* C14: a request that failed with one of the four kinds is logged with a
\* message of that kind and the call ends in the fallback
C14_FailureFallsBack ==
  (Done /\ KeyConfigured) =>
     \A i \in 1..Len(response) :
        response[i].kind = "error" =>
           /\ \E w \in log : TellsKind(w, response[i].status)
           /\ result.outcome = "returned"
           /\ FlagSet(result)
           /\ IsFallbackOf(result.topRisks, input)

\* C15: after the call the caller's array holds the same elements in the
\* same order as before
C15_InputUnchanged == Done => findings = input

-----------------------------------------------------------------------------
(* Properties of parseFindings *)

Parsed == parsed.outcome # "none"

\* the entry has every field of the scanner's schema with its type
FollowsSchema(r) ==
  /\ r.kind = "object"
  /\ r.check_id.type = "string"
  /\ r.path.type = "string"
  /\ r.start.present /\ r.start.line.type = "number"
  /\ r.extra.present
  /\ r.extra.message.type = "string"
  /\ r.extra.severity.type = "string"
  /\ r.extra.lines.type = "string"

ResultsIsList == file.kind = "object" /\ file.results.kind = "list"

\* C7: N well-formed entries give N findings in order with the fields mapped
\* one to one; results absent or no sequence gives an error that mentions
\* "results" and no findings
C7_ParserRoundTrip ==
  Parsed =>
     /\ (ResultsIsList /\ \A i \in 1..Len(file.results.items) : FollowsSchema(file.results.items[i]))
          => /\ parsed.outcome = "returned"
             /\ Len(parsed.findings) = Len(file.results.items)
             /\ \A i \in 1..Len(file.results.items) :
                  LET r == file.results.items[i]
                      f == parsed.findings[i]
                  IN /\ f.ruleId = r.check_id
                     /\ f.file = r.path
                     /\ f.line = r.start.line
                     /\ f.message = r.extra.message
                     /\ f.severity = r.extra.severity
                     /\ f.codeSnippet = r.extra.lines
     /\ (file.kind = "object" /\ file.results.kind # "list")
          => /\ parsed.outcome = "raised"
             /\ "results" \in parsed.error.mentions
             /\ parsed.findings = <<>>

\* C7 witness: two different well-formed entries parsed
C7_Witness ==
  /\ Parsed /\ ResultsIsList
  /\ Len(file.results.items) = 2
  /\ file.results.items[1] # file.results.items[2]
  /\ file.results.items[1].check_id # file.results.items[1].path
  /\ \A i \in 1..2 : FollowsSchema(file.results.items[i])
  /\ parsed.outcome = "returned"

\* C10: an entry that deviates from the schema makes the call fail
C10_DeviationRejected ==
  (Parsed /\ ResultsIsList
     /\ \E i \in 1..Len(file.results.items) : ~FollowsSchema(file.results.items[i]))
    => parsed.outcome = "raised"

====
